---- MODULE Spec2Model ----
(***************************************************************************)
(* Model of the uutils tar front end: uumain (src/uu/tar/src/tar.rs), the  *)
(* two operations it dispatches to (operations/create.rs and               *)
(* operations/extract.rs) and the working directory they act on.           *)
(*                                                                         *)
(* Text is modelled as a sequence of fragments whose concatenation is the  *)
(* text; "the text contains s" is "s is one of the fragments".             *)
(***************************************************************************)
EXTENDS Integers, Sequences, FiniteSets, TLC

\* ---------------------------------------------------------------- bounds
\* Largest number of command-line arguments after argv[0].
MaxArgs == 4

\* ------------------------------------------------------------- vocabulary
util_name == "tar"

\* Short flags declared by uu_app() that take no value: token -> argument id.
FlagTokens == {"-c", "-x", "-v", "-t"}

FlagId(t) ==
    CASE t = "-c" -> "create"
      [] t = "-x" -> "extract"
      [] t = "-v" -> "verbose"
      [] t = "-t" -> "list"

\* Short flags written as one word, as the tests do ("-cvf archive.tar ...").
ClusterTokens == {"-cvf"}

\* The short flags a word stands for.
Expand(t) == IF t = "-cvf" THEN <<"-c", "-v", "-f">> ELSE <<t>>

\* Words a command line is made of: declared flags, the -f option, the help
\* flag, an option uu_app() does not declare, and plain words (paths).
PathTokens == {"a.tar", "f1", util_name}

Tokens == FlagTokens \cup ClusterTokens \cup {"-f", "--help", "--definitely-invalid"}
              \cup PathTokens

IsOption(t) == t \in FlagTokens \cup {"-f", "--help", "--definitely-invalid"}

NoPath == "<none>"

\* An entry name that resolves outside the extraction root, and that place.
UnsafeName == "../../etc/passwd"

\* A path inside f1, there when f1 is a directory.
ChildName == "f1/g"

Paths == PathTokens \cup {UnsafeName, ChildName}

\* The directory a path lies in, when that directory is itself modelled.
Parent(p) == IF p = ChildName THEN "f1" ELSE NoPath

Descendants(d) == {p \in Paths : Parent(p) = d}

\* ------------------------------------------------------------- filesystem
Modes == {420, 493}                \* 0o644, 0o755
Contents == {<<>>, <<104, 105>>}   \* "", "hi"

Absent == [kind |-> "absent", mode |-> 0, bytes |-> <<>>, entries |-> <<>>,
           truncated |-> FALSE]

RegularFile(bytes, mode) ==
    [kind |-> "file", mode |-> mode, bytes |-> bytes, entries |-> <<>>,
     truncated |-> FALSE]

Directory(mode) ==
    [kind |-> "dir", mode |-> mode, bytes |-> <<>>, entries |-> <<>>,
     truncated |-> FALSE]

\* A file holding a well-formed tar stream with the given member names.
ArchiveFile(names) ==
    [kind |-> "file", mode |-> 420, bytes |-> <<>>, entries |-> names,
     truncated |-> FALSE]

\* A file holding a tar stream cut short after the given members: the bytes
\* end in the middle of a header or payload, before the terminator blocks.
TruncatedArchiveFile(names) ==
    [kind |-> "file", mode |-> 420, bytes |-> <<>>, entries |-> names,
     truncated |-> TRUE]

Exists(o) == o.kind # "absent"

\* ----------------------------------------------------------------- state
VARIABLES
    fs,        \* the working directory (and the unsafe place): path -> object
    fs0,       \* fs as it was when the running invocation started
    pc,        \* position of the invocation
    matches,   \* clap's ArgMatches, or NoMatches
    result,    \* what uumain returned, or NoResult
    stdout,    \* lines printed by the invocation
    calls,     \* calls of create_archive / extract_archive made by uumain
    archived,  \* what the last successful create was asked to archive
    args_vec,  \* the command line under study, or <<>> when it is not fixed
    twin,      \* how the other invocation of a compared pair ended, or NoTwin
    io_err,    \* the io::Error a TarError was converted from, or NoIo
    tar_err,   \* the TarError under study, or NoErr
    seen       \* what code(), fmt() and source() returned for tar_err

\* The errors module (errors.rs) is declared by tar.rs but never used by
\* uumain or the operations: its state is separate from the invocation's.
errs == <<io_err, tar_err, seen>>

vars == <<fs, fs0, pc, matches, result, stdout, calls, archived, args_vec, twin, errs>>

NoMatches == [flags |-> {}, file |-> NoPath, files |-> <<>>, parsed |-> FALSE]
NoResult == [returned |-> FALSE, code |-> 0, msg |-> <<>>]
NoSnap == [taken |-> FALSE, archive_path |-> NoPath, tree |-> [p \in Paths |-> Absent]]
NoTwin == [taken |-> FALSE, how |-> "none", args_vec |-> <<>>, matches |-> NoMatches,
           result |-> NoResult, stdout |-> <<>>, calls |-> <<>>,
           fs |-> [p \in Paths |-> Absent]]

Contains(text, s) == \E i \in DOMAIN text : text[i] = s

Range(s) == {s[i] : i \in DOMAIN s}

\* ------------------------------------------------------ results of uumain
Ok == [returned |-> TRUE, code |-> 0, msg |-> <<>>]

\* uucore::error::USimpleError::new(code, message)
USimpleError(code, msg) == [returned |-> TRUE, code |-> code, msg |-> msg]

\* ------------------------------------------------------- argument parsing
\* args_to_parse dropping every later element equal to the utility name.
args_to_parse_every(argv) ==
    <<argv[1]>> \o SelectSeq(Tail(argv), LAMBDA t : t # util_name)

\* uumain lines 20-28: drop a second element equal to the utility name.
args_to_parse(argv) ==
    IF Len(argv) > 1 /\ argv[2] = util_name
    THEN <<argv[1]>> \o SubSeq(argv, 3, Len(argv))
    ELSE argv

ClapError(kind, code, msg) == [ok |-> FALSE, kind |-> kind, code |-> code, msg |-> msg,
                              m |-> NoMatches]

\* What the main wrapper makes of a clap error returned by uumain: help goes
\* to stdout with status 0, any other error to stderr with its status.
ClapErrorResult(r) ==
    [returned |-> TRUE, code |-> r.code,
     msg |-> IF r.kind = "DisplayHelp" THEN <<>> ELSE r.msg]

ClapOk(m) == [ok |-> TRUE, kind |-> "none", code |-> 0, msg |-> <<>>,
              m |-> [m EXCEPT !.parsed = TRUE]]

\* What clap says of a word that starts with a hyphen and is not declared.
UnknownArgument(t) ==
    ClapError("UnknownArgument", 1, <<"error: ", "unexpected argument", " '", t, "' found">>)

Declared == FlagTokens \cup {"-f", "--help"}

\* try_get_matches_from with undeclared options skipped instead of refused.
RECURSIVE ParseFrom_lenient(_, _, _)
ParseFrom_lenient(args, i, m) ==
    IF i > Len(args) THEN ClapOk(m)
    ELSE LET t == args[i] IN
         IF t \in FlagTokens THEN
             IF FlagId(t) \in m.flags
             THEN ClapError("ArgumentConflict", 1,
                            <<"error: the argument '", t, "' cannot be used multiple times">>)
             ELSE ParseFrom_lenient(args, i + 1, [m EXCEPT !.flags = @ \cup {FlagId(t)}])
         ELSE IF t = "-f" THEN
             IF m.file # NoPath
             THEN ClapError("ArgumentConflict", 1,
                            <<"error: the argument '", t, "' cannot be used multiple times">>)
             ELSE IF i = Len(args) \/ args[i + 1] \in Declared
             THEN ClapError("InvalidValue", 1,
                            <<"error: a value is required for '--file <ARCHIVE>' but none was supplied">>)
             ELSE IF IsOption(args[i + 1])
             THEN ParseFrom_lenient(args, i + 2, m)
             ELSE ParseFrom_lenient(args, i + 2, [m EXCEPT !.file = args[i + 1]])
         ELSE IF t = "--help" THEN
             ClapError("DisplayHelp", 0, <<"an archiving utility">>)
         ELSE IF IsOption(t) THEN
             ParseFrom_lenient(args, i + 1, m)
         ELSE ParseFrom_lenient(args, i + 1, [m EXCEPT !.files = Append(@, t)])

\* uu_app().try_get_matches_from(args), left to right from position i. The
\* first word clap objects to ends the parse: a flag or -f given twice, -f
\* left without a value by the end of the line or by a declared option, a
\* help request, or a word that looks like an option and is not declared.
RECURSIVE ParseFrom(_, _, _)
ParseFrom(args, i, m) ==
    IF i > Len(args) THEN ClapOk(m)
    ELSE LET t == args[i] IN
         IF t \in FlagTokens THEN
             IF FlagId(t) \in m.flags
             THEN ClapError("ArgumentConflict", 1,
                            <<"error: the argument '", t, "' cannot be used multiple times">>)
             ELSE ParseFrom(args, i + 1, [m EXCEPT !.flags = @ \cup {FlagId(t)}])
         ELSE IF t = "-f" THEN
             IF m.file # NoPath
             THEN ClapError("ArgumentConflict", 1,
                            <<"error: the argument '", t, "' cannot be used multiple times">>)
             ELSE IF i = Len(args) \/ args[i + 1] \in Declared
             THEN ClapError("InvalidValue", 1,
                            <<"error: a value is required for '--file <ARCHIVE>' but none was supplied">>)
             ELSE IF IsOption(args[i + 1])
             THEN UnknownArgument(args[i + 1])
             ELSE ParseFrom(args, i + 2, [m EXCEPT !.file = args[i + 1]])
         ELSE IF t = "--help" THEN
             ClapError("DisplayHelp", 0, <<"an archiving utility">>)
         ELSE IF IsOption(t) THEN
             UnknownArgument(t)
         ELSE ParseFrom(args, i + 1, [m EXCEPT !.files = Append(@, t)])

\* The command line with every cluster of short flags spelled out.
RECURSIVE Flatten(_)
Flatten(args) ==
    IF args = <<>> THEN <<>> ELSE Expand(Head(args)) \o Flatten(Tail(args))

try_get_matches_from(args) == ParseFrom(Flatten(args), 2, NoMatches)

get_flag(m, id) == id \in m.flags

\* Command lines: argv[0] followed by at most MaxArgs words.
Argvs == {<<util_name>> \o a : a \in UNION {[1..n -> Tokens] : n \in 0..MaxArgs}}

\* What uumain lines 20-30 make of each command line.
Parsed == {try_get_matches_from(args_to_parse(argv)) : argv \in Argvs}

\* ------------------------------------------------------------- errors.rs
\* Text in this part is a sequence of characters, so that formatting is a
\* real concatenation.
Chars(str) ==
    CASE str = "I/O error: " -> <<"I", "/", "O", " ", "e", "r", "r", "o", "r", ":", " ">>
      [] str = "Invalid archive: " ->
            <<"I", "n", "v", "a", "l", "i", "d", " ", "a", "r", "c", "h", "i", "v", "e", ":", " ">>
      [] str = "File not found: " ->
            <<"F", "i", "l", "e", " ", "n", "o", "t", " ", "f", "o", "u", "n", "d", ":", " ">>
      [] str = "Permission denied: " ->
            <<"P", "e", "r", "m", "i", "s", "s", "i", "o", "n", " ",
              "d", "e", "n", "i", "e", "d", ":", " ">>
      [] str = "tar: " -> <<"t", "a", "r", ":", " ">>

\* Payloads: "", "a", "tar: " and "File not found: a".
Messages == {<<>>, <<"a">>, Chars("tar: "), Chars("File not found: ") \o <<"a">>}

\* io::ErrorKind, two of the kinds `from` singles out and two it does not.
ErrorKinds == {"NotFound", "PermissionDenied", "BrokenPipe", "Other"}

\* io::Error::new(kind, msg)
IoErrors == [kind : ErrorKinds, msg : Messages]

NoIo == [kind |-> "none", msg |-> <<>>]

\* io::Error's Display: the message it was built with.
to_string(err) == err.msg

\* enum TarError, lines 12-23.
StringVariants == {"InvalidArchive", "FileNotFound", "PermissionDenied", "TarOperationError"}
Variants == {"IoError"} \cup StringVariants

IoError(err) == [variant |-> "IoError", io |-> err, payload |-> <<>>]
InvalidArchive(msg) == [variant |-> "InvalidArchive", io |-> NoIo, payload |-> msg]
FileNotFound(path) == [variant |-> "FileNotFound", io |-> NoIo, payload |-> path]
PermissionDenied(path) == [variant |-> "PermissionDenied", io |-> NoIo, payload |-> path]
TarOperationError(msg) == [variant |-> "TarOperationError", io |-> NoIo, payload |-> msg]

TarErrors ==
    {IoError(err) : err \in IoErrors}
        \cup {[variant |-> v, io |-> NoIo, payload |-> msg] : v \in StringVariants, msg \in Messages}

NoErr == [variant |-> "none", io |-> NoIo, payload |-> <<>>]

\* fmt() with the FileNotFound arm carrying the TarOperationError prefix.
fmt_copied(e) ==
    CASE e.variant = "IoError" -> Chars("I/O error: ") \o to_string(e.io)
      [] e.variant = "InvalidArchive" -> Chars("Invalid archive: ") \o e.payload
      [] e.variant = "FileNotFound" -> Chars("tar: ") \o e.payload
      [] e.variant = "PermissionDenied" -> Chars("Permission denied: ") \o e.payload
      [] e.variant = "TarOperationError" -> Chars("tar: ") \o e.payload

\* impl fmt::Display for TarError, lines 25-35.
fmt(e) ==
    CASE e.variant = "IoError" -> Chars("I/O error: ") \o to_string(e.io)
      [] e.variant = "InvalidArchive" -> Chars("Invalid archive: ") \o e.payload
      [] e.variant = "FileNotFound" -> Chars("File not found: ") \o e.payload
      [] e.variant = "PermissionDenied" -> Chars("Permission denied: ") \o e.payload
      [] e.variant = "TarOperationError" -> Chars("tar: ") \o e.payload

None == [some |-> FALSE, err |-> NoIo]
Some(err) == [some |-> TRUE, err |-> err]

\* source() with the IoError arm forgotten.
source_none(e) == None

\* impl std::error::Error for TarError, lines 37-44.
source(e) == IF e.variant = "IoError" THEN Some(e.io) ELSE None

\* code() with every variant mapped to the generic status.
code_generic(e) == 1

\* impl UError for TarError, lines 46-56.
code(e) ==
    CASE e.variant = "IoError" -> 1
      [] e.variant = "InvalidArchive" -> 2
      [] e.variant = "FileNotFound" -> 1
      [] e.variant = "PermissionDenied" -> 1
      [] e.variant = "TarOperationError" -> 1

\* from() without the dispatch on the kind.
from_wrap(err) == IoError(err)

\* impl From<io::Error> for TarError, lines 58-66.
from(err) ==
    CASE err.kind = "NotFound" -> FileNotFound(to_string(err))
      [] err.kind = "PermissionDenied" -> PermissionDenied(to_string(err))
      [] OTHER -> IoError(err)

NoSeen == [asked |-> {}, code |-> 0, text |-> <<>>, source |-> None]

\* ------------------------------------------------------------------ Init
\* The working directory before the first invocation: f1 may be there, the
\* archive may be there (well formed, holding an unsafe member name, or cut
\* short);
\* a directory f1 may hold a file; nothing exists at the unsafe place or under
\* the utility's own name.
InitFs ==
    {[p \in Paths |-> CASE p = "f1" -> f
                       [] p = "a.tar" -> a
                       [] p = ChildName -> IF f.kind = "dir" THEN g ELSE Absent
                       [] OTHER -> Absent] :
        f \in {Absent} \cup {RegularFile(b, md) : b \in Contents, md \in Modes}
                       \cup {Directory(md) : md \in Modes},
        g \in {Absent, RegularFile(<<104, 105>>, 420)},
        a \in {Absent, ArchiveFile(<<"f1">>), ArchiveFile(<<UnsafeName>>),
               TruncatedArchiveFile(<<"f1">>)}}

Init ==
    /\ fs \in InitFs
    /\ fs0 = fs
    /\ pc = "idle"
    /\ matches = NoMatches
    /\ result = NoResult
    /\ stdout = <<>>
    /\ calls = <<>>
    /\ archived = NoSnap
    /\ args_vec = <<>>
    /\ twin = NoTwin
    /\ io_err = NoIo
    /\ tar_err = NoErr
    /\ seen = NoSeen

\* ---------------------------------------------------------------- uumain
\* Lines 18-32: collect the arguments, drop the duplicated utility name,
\* parse. A clap error is returned through `?`; the main wrapper prints help
\* on stdout with status 0 and every other clap error with status 1.
uumain_parse ==
    /\ pc = "idle"
    /\ \E r \in IF args_vec = <<>> THEN Parsed
                  ELSE {try_get_matches_from(args_to_parse(args_vec))} :
          IF r.ok
          THEN /\ matches' = r.m
               /\ pc' = "parsed"
               /\ UNCHANGED <<result, stdout>>
          ELSE /\ matches' = NoMatches
               /\ pc' = "done"
               /\ result' = ClapErrorResult(r)
               /\ stdout' = IF r.kind = "DisplayHelp" THEN <<r.msg>> ELSE stdout
    /\ fs0' = fs
    /\ UNCHANGED <<fs, calls, archived>>
    /\ UNCHANGED <<args_vec, twin, errs>>

RequiresArgument == <<"tar: option ", "requires an argument", " -- 'f'">>

\* uumain_extract falling back to a default archive when -f is absent.
uumain_extract_default_archive ==
    /\ pc = "parsed"
    /\ get_flag(matches, "extract")
    /\ calls' = Append(calls, [fn |-> "extract_archive",
                               archive_path |-> IF matches.file = NoPath
                                                THEN "a.tar" ELSE matches.file,
                               files |-> <<>>,
                               verbose |-> get_flag(matches, "verbose")])
    /\ pc' = "extract_archive"
    /\ UNCHANGED <<fs, fs0, matches, result, stdout, archived>>
    /\ UNCHANGED <<args_vec, twin, errs>>

\* Lines 34-46: the extract operation.
uumain_extract ==
    /\ pc = "parsed"
    /\ get_flag(matches, "extract")
    /\ IF matches.file = NoPath
       THEN /\ result' = USimpleError(1, RequiresArgument)
            /\ pc' = "done"
            /\ UNCHANGED calls
       ELSE /\ calls' = Append(calls, [fn |-> "extract_archive",
                                       archive_path |-> matches.file,
                                       files |-> <<>>,
                                       verbose |-> get_flag(matches, "verbose")])
            /\ pc' = "extract_archive"
            /\ UNCHANGED result
    /\ UNCHANGED <<fs, fs0, matches, stdout, archived>>
    /\ UNCHANGED <<args_vec, twin, errs>>

EmptyArchive == <<"tar: Cowardly refusing to create an ", "empty archive">>

\* uumain_create without the files.is_empty() check of lines 64-70.
uumain_create_unguarded ==
    /\ pc = "parsed"
    /\ ~get_flag(matches, "extract")
    /\ get_flag(matches, "create")
    /\ IF matches.file = NoPath
       THEN /\ result' = USimpleError(1, RequiresArgument)
            /\ pc' = "done"
            /\ UNCHANGED calls
       ELSE /\ calls' = Append(calls, [fn |-> "create_archive",
                                       archive_path |-> matches.file,
                                       files |-> matches.files,
                                       verbose |-> get_flag(matches, "verbose")])
            /\ pc' = "create_archive"
            /\ UNCHANGED result
    /\ UNCHANGED <<fs, fs0, matches, stdout, archived>>
    /\ UNCHANGED <<args_vec, twin, errs>>

\* uumain_create tested without regard to the extract flag, as it would be if
\* the create branch came first.
uumain_create_first ==
    /\ pc = "parsed"
    /\ get_flag(matches, "create")
    /\ IF matches.file = NoPath
       THEN /\ result' = USimpleError(1, RequiresArgument)
            /\ pc' = "done"
            /\ UNCHANGED calls
       ELSE IF matches.files = <<>>
       THEN /\ result' = USimpleError(1, EmptyArchive)
            /\ pc' = "done"
            /\ UNCHANGED calls
       ELSE /\ calls' = Append(calls, [fn |-> "create_archive",
                                       archive_path |-> matches.file,
                                       files |-> matches.files,
                                       verbose |-> get_flag(matches, "verbose")])
            /\ pc' = "create_archive"
            /\ UNCHANGED result
    /\ UNCHANGED <<fs, fs0, matches, stdout, archived>>
    /\ UNCHANGED <<args_vec, twin, errs>>

\* uumain_create with the files.is_empty() check made before the -f check.
uumain_create_empty_first ==
    /\ pc = "parsed"
    /\ ~get_flag(matches, "extract")
    /\ get_flag(matches, "create")
    /\ IF matches.files = <<>>
       THEN /\ result' = USimpleError(1, EmptyArchive)
            /\ pc' = "done"
            /\ UNCHANGED calls
       ELSE IF matches.file = NoPath
       THEN /\ result' = USimpleError(1, RequiresArgument)
            /\ pc' = "done"
            /\ UNCHANGED calls
       ELSE /\ calls' = Append(calls, [fn |-> "create_archive",
                                       archive_path |-> matches.file,
                                       files |-> matches.files,
                                       verbose |-> get_flag(matches, "verbose")])
            /\ pc' = "create_archive"
            /\ UNCHANGED result
    /\ UNCHANGED <<fs, fs0, matches, stdout, archived>>
    /\ UNCHANGED <<args_vec, twin, errs>>

\* Lines 48-73: the create operation.
uumain_create ==
    /\ pc = "parsed"
    /\ ~get_flag(matches, "extract")
    /\ get_flag(matches, "create")
    /\ IF matches.file = NoPath
       THEN /\ result' = USimpleError(1, RequiresArgument)
            /\ pc' = "done"
            /\ UNCHANGED calls
       ELSE IF matches.files = <<>>
       THEN /\ result' = USimpleError(1, EmptyArchive)
            /\ pc' = "done"
            /\ UNCHANGED calls
       ELSE /\ calls' = Append(calls, [fn |-> "create_archive",
                                       archive_path |-> matches.file,
                                       files |-> matches.files,
                                       verbose |-> get_flag(matches, "verbose")])
            /\ pc' = "create_archive"
            /\ UNCHANGED result
    /\ UNCHANGED <<fs, fs0, matches, stdout, archived>>
    /\ UNCHANGED <<args_vec, twin, errs>>

MustSpecify == <<"tar: You ", "must specify one", " of the '-Acdtrux', '--delete' or '--test-label' options">>

\* uumain_no_operation showing help and returning success.
uumain_no_operation_help ==
    /\ pc = "parsed"
    /\ ~get_flag(matches, "extract")
    /\ ~get_flag(matches, "create")
    /\ result' = Ok
    /\ stdout' = Append(stdout, <<"an archiving utility">>)
    /\ pc' = "done"
    /\ UNCHANGED <<fs, fs0, matches, calls, archived>>
    /\ UNCHANGED <<args_vec, twin, errs>>

\* Lines 75-80: no operation selected.
uumain_no_operation ==
    /\ pc = "parsed"
    /\ ~get_flag(matches, "extract")
    /\ ~get_flag(matches, "create")
    /\ result' = USimpleError(1, MustSpecify)
    /\ pc' = "done"
    /\ UNCHANGED <<fs, fs0, matches, stdout, calls, archived>>
    /\ UNCHANGED <<args_vec, twin, errs>>

\* -------------------------------------------------------- the operations
CurrentCall == calls[Len(calls)]

\* What a create run was asked to archive: the named paths, and what lies in
\* the named directories, as they are now.
Snapshot(archive_path, files) ==
    [taken |-> TRUE, archive_path |-> archive_path,
     tree |-> [p \in Paths |-> IF /\ p \in Range(files) \/ Parent(p) \in Range(files)
                                  /\ p # archive_path
                               THEN fs[p] ELSE Absent]]

\* create_archive announcing the archive only, without the loop of lines 20-22.
create_archive_no_loop ==
    /\ pc = "create_archive"
    /\ stdout' = IF CurrentCall.verbose
                 THEN Append(stdout, <<"Would create archive: ", CurrentCall.archive_path>>)
                 ELSE stdout
    /\ result' = Ok
    /\ pc' = "done"
    /\ archived' = Snapshot(CurrentCall.archive_path, CurrentCall.files)
    /\ UNCHANGED <<fs, fs0, matches, calls>>
    /\ UNCHANGED <<args_vec, twin, errs>>

\* operations/create.rs lines 16-25.
create_archive ==
    /\ pc = "create_archive"
    /\ stdout' = IF CurrentCall.verbose
                 THEN stdout \o <<<<"Would create archive: ", CurrentCall.archive_path>>>>
                      \o [i \in DOMAIN CurrentCall.files |->
                            <<"  Would add: ", CurrentCall.files[i]>>]
                 ELSE stdout
    /\ result' = Ok
    /\ pc' = "done"
    /\ archived' = Snapshot(CurrentCall.archive_path, CurrentCall.files)
    /\ UNCHANGED <<fs, fs0, matches, calls>>
    /\ UNCHANGED <<args_vec, twin, errs>>

\* extract_archive taking verbose for a dry run: the members are written only
\* when it is not set.
extract_archive_verbose_dry_run ==
    /\ pc = "extract_archive"
    /\ stdout' = IF CurrentCall.verbose
                 THEN Append(stdout, <<"Would extract archive: ", CurrentCall.archive_path>>)
                 ELSE stdout
    /\ fs' = IF CurrentCall.verbose
             THEN fs
             ELSE [p \in Paths |->
                     IF p \in Range(fs[CurrentCall.archive_path].entries)
                     THEN RegularFile(<<>>, 420) ELSE fs[p]]
    /\ result' = Ok
    /\ pc' = "done"
    /\ UNCHANGED <<fs0, matches, calls, archived>>
    /\ UNCHANGED <<args_vec, twin, errs>>

\* operations/extract.rs lines 15-21.
extract_archive ==
    /\ pc = "extract_archive"
    /\ stdout' = IF CurrentCall.verbose
                 THEN Append(stdout, <<"Would extract archive: ", CurrentCall.archive_path>>)
                 ELSE stdout
    /\ result' = Ok
    /\ pc' = "done"
    /\ UNCHANGED <<fs, fs0, matches, calls, archived>>
    /\ UNCHANGED <<args_vec, twin, errs>>

\* The process ends; the next invocation starts from a clean slate.
exit ==
    /\ pc = "done"
    /\ pc' = "idle"
    /\ matches' = NoMatches
    /\ result' = NoResult
    /\ stdout' = <<>>
    /\ calls' = <<>>
    /\ fs0' = fs
    /\ UNCHANGED <<fs, archived>>
    /\ UNCHANGED <<args_vec, twin, errs>>

\* ------------------------------------------- the tests' fixture, between runs
\* at.remove(path): what the round-trip tests do between create and extract.
at_remove ==
    /\ pc = "idle"
    /\ \E p \in Paths :
          /\ Exists(fs[p])
          /\ \A q \in Descendants(p) : ~Exists(fs[q])
          /\ fs' = [fs EXCEPT ![p] = Absent]
          /\ archived' = IF p = archived.archive_path THEN NoSnap ELSE archived
    /\ fs0' = fs'
    /\ UNCHANGED <<pc, matches, result, stdout, calls>>
    /\ UNCHANGED <<args_vec, twin, errs>>

\* at.write(path, content) followed by set_permissions(path, mode).
at_write ==
    /\ pc = "idle"
    /\ \E p \in {"f1", ChildName}, b \in Contents, md \in Modes :
          /\ fs[p].kind # "dir"
          /\ Parent(p) # NoPath => fs[Parent(p)].kind = "dir"
          /\ fs' = [fs EXCEPT ![p] = RegularFile(b, md)]
          /\ archived' = IF archived.archive_path = p THEN NoSnap ELSE archived
    /\ fs0' = fs'
    /\ UNCHANGED <<pc, matches, result, stdout, calls>>
    /\ UNCHANGED <<args_vec, twin, errs>>

\* at.mkdir(path) followed by set_permissions(path, mode).
at_mkdir ==
    /\ pc = "idle"
    /\ ~Exists(fs["f1"])
    /\ \E md \in Modes : fs' = [fs EXCEPT !["f1"] = Directory(md)]
    /\ archived' = IF archived.archive_path = "f1" THEN NoSnap ELSE archived
    /\ fs0' = fs'
    /\ UNCHANGED <<pc, matches, result, stdout, calls>>
    /\ UNCHANGED <<args_vec, twin, errs>>

Next ==
    \/ uumain_parse
    \/ uumain_extract
    \/ uumain_create
    \/ uumain_no_operation
    \/ create_archive
    \/ extract_archive
    \/ exit
    \/ at_remove
    \/ at_write
    \/ at_mkdir

Spec == Init /\ [][Next]_vars

\* ------------------------------------------- one command line, start to end
\* A working directory with a file and an archive of it.
ArgFs ==
    [p \in Paths |-> CASE p = "f1" -> RegularFile(<<104, 105>>, 420)
                      [] p = "a.tar" -> ArchiveFile(<<"f1">>)
                      [] OTHER -> Absent]

\* uumain is entered with the command line args_vec.
ArgInit ==
    /\ fs = ArgFs
    /\ fs0 = fs
    /\ pc = "idle"
    /\ matches = NoMatches
    /\ result = NoResult
    /\ stdout = <<>>
    /\ calls = <<>>
    /\ archived = NoSnap
    /\ args_vec \in Argvs
    /\ twin = NoTwin
    /\ io_err = NoIo
    /\ tar_err = NoErr
    /\ seen = NoSeen

ArgNext ==
    \/ uumain_parse
    \/ uumain_extract
    \/ uumain_create
    \/ uumain_no_operation
    \/ create_archive
    \/ extract_archive

ArgSpec == ArgInit /\ [][ArgNext]_vars

\* ------------------------------------------- two command lines, side by side
\* The sequence s without its i-th element.
RemoveAt(s, i) == SubSeq(s, 1, i - 1) \o SubSeq(s, i + 1, Len(s))

\* The invocation is over; how it ended is kept, and uumain is entered again
\* with the command line b in the working directory the first one started in.
rerun(how, b) ==
    /\ pc = "done"
    /\ ~twin.taken
    /\ twin' = [taken |-> TRUE, how |-> how, args_vec |-> args_vec,
                matches |-> matches, result |-> result, stdout |-> stdout,
                calls |-> calls, fs |-> fs]
    /\ args_vec' = b
    /\ pc' = "idle"
    /\ matches' = NoMatches
    /\ result' = NoResult
    /\ stdout' = <<>>
    /\ calls' = <<>>
    /\ fs' = fs0
    /\ archived' = NoSnap
    /\ UNCHANGED <<fs0, errs>>

\* The same command line with one -v word left out.
rerun_without_verbose ==
    \E i \in 2..Len(args_vec) :
        /\ args_vec[i] = "-v"
        /\ "-v" \notin Range(Flatten(RemoveAt(args_vec, i)))
        /\ rerun("verbose", RemoveAt(args_vec, i))

\* The same command line without the utility name in second place.
rerun_without_duplicate ==
    /\ Len(args_vec) > 1
    /\ args_vec[2] = util_name
    /\ rerun("duplicate", RemoveAt(args_vec, 2))

PairNext ==
    \/ ArgNext
    \/ rerun_without_verbose
    \/ rerun_without_duplicate

PairSpec == ArgInit /\ [][PairNext]_vars

\* ------------------------------------------------- the errors module alone
main == <<fs, fs0, pc, matches, result, stdout, calls, archived, args_vec, twin>>

\* No invocation is running and no error has been built.
ErrInit ==
    /\ fs = [p \in Paths |-> Absent]
    /\ fs0 = fs
    /\ pc = "idle"
    /\ matches = NoMatches
    /\ result = NoResult
    /\ stdout = <<>>
    /\ calls = <<>>
    /\ archived = NoSnap
    /\ args_vec = <<>>
    /\ twin = NoTwin
    /\ io_err = NoIo
    /\ tar_err = NoErr
    /\ seen = NoSeen

\* A TarError is built from one of its constructors, as the unit tests do.
construct ==
    /\ tar_err = NoErr
    /\ \E e \in TarErrors : tar_err' = e
    /\ UNCHANGED <<io_err, seen, main>>

\* TarError::from(io_err), lines 58-66.
convert ==
    /\ tar_err = NoErr
    /\ \E err \in IoErrors :
          /\ io_err' = err
          /\ tar_err' = from(err)
    /\ UNCHANGED <<seen, main>>

\* tar_err.code(), lines 46-56.
call_code ==
    /\ tar_err # NoErr
    /\ "code" \notin seen.asked
    /\ seen' = [seen EXCEPT !.asked = @ \cup {"code"}, !.code = code(tar_err)]
    /\ UNCHANGED <<io_err, tar_err, main>>

\* tar_err.to_string(), lines 25-35.
call_fmt ==
    /\ tar_err # NoErr
    /\ "fmt" \notin seen.asked
    /\ seen' = [seen EXCEPT !.asked = @ \cup {"fmt"}, !.text = fmt(tar_err)]
    /\ UNCHANGED <<io_err, tar_err, main>>

\* tar_err.source(), lines 37-44.
call_source ==
    /\ tar_err # NoErr
    /\ "source" \notin seen.asked
    /\ seen' = [seen EXCEPT !.asked = @ \cup {"source"}, !.source = source(tar_err)]
    /\ UNCHANGED <<io_err, tar_err, main>>

ErrNext ==
    \/ construct
    \/ convert
    \/ call_code
    \/ call_fmt
    \/ call_source

ErrSpec == ErrInit /\ [][ErrNext]_vars

\* ======================================================================
\* Properties
\* ======================================================================
Called(fn) == \E i \in DOMAIN calls : calls[i].fn = fn

\* The invocation has returned from a successful parse.
Returned == pc = "done" /\ matches.parsed

\* Selected operations, as uumain reads them from the matches.
CreateSelected == get_flag(matches, "create")
ExtractSelected == get_flag(matches, "extract")
FileGiven == matches.file # NoPath

\* C1: a create invocation (-c with -f ARCHIVE, create being the operation
\* uumain runs, i.e. -x not given) whose positional file list is empty
\* returns an error with exit code 1 whose message contains "empty archive";
\* and for every invocation with -c, -f ARCHIVE and no positional file,
\* create_archive is never called and the filesystem is as it was when the
\* invocation started.
EmptyArchiveGuard ==
    (Returned /\ CreateSelected /\ FileGiven /\ matches.files = <<>>)
        => /\ ~Called("create_archive")
           /\ fs = fs0
           /\ ~ExtractSelected =>
                 /\ result.code = 1
                 /\ Contains(result.msg, "empty archive")

EmptyArchiveGuardWitness ==
    /\ Returned /\ CreateSelected /\ ~ExtractSelected /\ FileGiven
    /\ matches.files = <<>>
    /\ Contains(result.msg, "empty archive")

\* C3: every invocation that selects both -c and -x together with -f ARCHIVE
\* fails with exit code 1.
ConflictingOperationsRejected ==
    (Returned /\ CreateSelected /\ ExtractSelected /\ FileGiven)
        => result.code = 1

MissingFileOptionFails ==
    (Returned /\ (CreateSelected \/ ExtractSelected) /\ ~FileGiven)
        => /\ result.code = 1
           /\ Contains(result.msg, "requires an argument")
           /\ calls = <<>>

MissingFileOptionFailsWitness ==
    /\ Returned /\ CreateSelected /\ ~ExtractSelected /\ ~FileGiven
    /\ matches.files = <<"f1">>
    /\ Contains(result.msg, "requires an argument")

\* A create run: -c with -f ARCHIVE and at least one file, -x not given.
CreateRun ==
    /\ Returned /\ CreateSelected /\ ~ExtractSelected /\ FileGiven
    /\ matches.files # <<>>

\* An extract run: -x with -f ARCHIVE.
ExtractRun == Returned /\ ExtractSelected /\ FileGiven

MissingInputs == {p \in Range(matches.files) : ~Exists(fs0[p])}

\* C6: a create run in which some named input path does not exist fails with
\* exit code 1 and a diagnostic that names an offending path.
CreateMissingInputFails ==
    (CreateRun /\ MissingInputs # {})
        => /\ result.code = 1
           /\ \E p \in MissingInputs : Contains(result.msg, p)

\* C7: an extract run whose ARCHIVE does not exist fails with exit code 1 and
\* a diagnostic that names the archive path.
ExtractMissingArchiveFails ==
    (ExtractRun /\ ~Exists(fs0[matches.file]))
        => /\ result.code = 1
           /\ Contains(result.msg, matches.file)

\* C8: a successful create run over existing regular files leaves a file at
\* ARCHIVE whose entries are exactly the named files, one entry per name.
CreateWritesOneEntryPerFile ==
    (/\ CreateRun
     /\ result.code = 0
     /\ \A p \in Range(matches.files) : fs0[p].kind = "file")
        => /\ Exists(fs[matches.file])
           /\ Len(fs[matches.file].entries) = Len(matches.files)
           /\ Range(fs[matches.file].entries) = Range(matches.files)

\* C9: an extract run over an archive with a member whose name resolves
\* outside the destination root fails with an error, and no extract run
\* creates or changes what is at that place.
UnsafePathRejected ==
    ExtractRun
        => /\ fs[UnsafeName] = fs0[UnsafeName]
           /\ UnsafeName \in Range(fs0[matches.file].entries) => result.code # 0

\* The round trip of the tests: create succeeded on T, T was removed, then
\* extract from the same archive succeeded.
RoundTripDone ==
    /\ ExtractRun
    /\ result.code = 0
    /\ archived.taken
    /\ archived.archive_path = matches.file
    /\ \A p \in Paths : ~Exists(fs0[p]) \/ ~Exists(archived.tree[p])

\* C2: after create, removal of T and extract, every file of T is back with
\* its kind and byte-exact content.
RoundTrip ==
    RoundTripDone
        => \A p \in Paths :
              Exists(archived.tree[p])
                  => /\ fs[p].kind = archived.tree[p].kind
                     /\ fs[p].bytes = archived.tree[p].bytes
                     /\ fs[p].entries = archived.tree[p].entries

\* C10: after create followed by extract, every file of T exists with the
\* mode bits (mod 0o777) it had when it was archived.
PermissionPreservation ==
    RoundTripDone
        => \A p \in Paths :
              Exists(archived.tree[p])
                  => /\ Exists(fs[p])
                     /\ fs[p].mode % 512 = archived.tree[p].mode % 512

\* C11: an extract run over an archive that is truncated mid-header or
\* mid-payload ends in an error; it never reports success.
TruncatedArchiveFails ==
    (ExtractRun /\ Exists(fs0[matches.file]) /\ fs0[matches.file].truncated)
        => result.code # 0

Precedes(seq, a, b) ==
    \E i, j \in DOMAIN seq : seq[i] = a /\ seq[j] = b /\ i < j

\* C12: a successful create run that names a directory leaves an archive
\* holding the directory and everything in it, the directory before each of
\* its descendants.
DirectoryBeforeDescendants ==
    (CreateRun /\ result.code = 0)
        => \A d \in Range(matches.files) :
              (fs0[d].kind = "dir" /\ d # matches.file)
                  => /\ Exists(fs[matches.file])
                     /\ d \in Range(fs[matches.file].entries)
                     /\ \A q \in Descendants(d) :
                           Exists(fs0[q])
                               => Precedes(fs[matches.file].entries, d, q)

\* C13: code() is 2 for InvalidArchive and 1 for IoError, FileNotFound,
\* PermissionDenied and TarOperationError; so it is 2 exactly for
\* InvalidArchive and never 0.
InvalidArchiveCodeDistinct ==
    "code" \in seen.asked
        => /\ tar_err.variant = "InvalidArchive" => seen.code = 2
           /\ tar_err.variant \in {"IoError", "FileNotFound", "PermissionDenied",
                                   "TarOperationError"} => seen.code = 1
           /\ seen.code = 2 <=> tar_err.variant = "InvalidArchive"
           /\ seen.code # 0

InvalidArchiveCodeDistinctWitness ==
    /\ "code" \in seen.asked
    /\ tar_err.variant = "InvalidArchive"
    /\ seen.code = 2

\* C14: a create run with the verbose flag writes to standard output one
\* line per file given on the command line, each holding that file's name,
\* in command-line order.
VerboseCreateListsFiles ==
    (CreateRun /\ get_flag(matches, "verbose"))
        => \E k \in 0..Len(stdout) :
              /\ Len(stdout) = k + Len(matches.files)
              /\ \A i \in DOMAIN matches.files :
                    Contains(stdout[k + i], matches.files[i])

VerboseCreateListsFilesWitness ==
    /\ CreateRun /\ get_flag(matches, "verbose")
    /\ Len(matches.files) = 2
    /\ matches.files[1] # matches.files[2]
    /\ Contains(stdout[Len(stdout)], matches.files[2])

\* C15: an extract run with the verbose flag writes to standard output the
\* name of every member of the archive it extracts from.
VerboseExtractListsMembers ==
    (ExtractRun /\ get_flag(matches, "verbose") /\ result.code = 0)
        => \A n \in Range(fs0[matches.file].entries) :
              \E i \in DOMAIN stdout : Contains(stdout[i], n)

\* C16: converting an io::Error gives FileNotFound for kind NotFound,
\* PermissionDenied for kind PermissionDenied and, for every other kind,
\* IoError wrapping the original error with its kind unchanged; it never
\* gives InvalidArchive or TarOperationError, so a converted error has exit
\* code 1.
IoErrorConversion ==
    io_err # NoIo
        => /\ io_err.kind = "NotFound" => tar_err.variant = "FileNotFound"
           /\ io_err.kind = "PermissionDenied" => tar_err.variant = "PermissionDenied"
           /\ io_err.kind \notin {"NotFound", "PermissionDenied"}
                 => /\ tar_err.variant = "IoError"
                    /\ tar_err.io = io_err
                    /\ tar_err.io.kind = io_err.kind
           /\ tar_err.variant \in {"FileNotFound", "PermissionDenied", "IoError"}
           /\ "code" \in seen.asked => seen.code = 1

IoErrorConversionWitness ==
    /\ io_err.kind = "BrokenPipe"
    /\ tar_err.variant = "IoError"
    /\ tar_err.io.kind = "BrokenPipe"
    /\ "code" \in seen.asked

\* The prefix the displayed text of each variant starts with.
DisplayPrefix(v) ==
    CASE v = "IoError" -> Chars("I/O error: ")
      [] v = "InvalidArchive" -> Chars("Invalid archive: ")
      [] v = "FileNotFound" -> Chars("File not found: ")
      [] v = "PermissionDenied" -> Chars("Permission denied: ")
      [] v = "TarOperationError" -> Chars("tar: ")

\* What a TarError carries: the io::Error's text, or the string.
PayloadText(e) == IF e.variant = "IoError" THEN to_string(e.io) ELSE e.payload

\* C18: the displayed text of a TarError is its variant's prefix followed by
\* the payload unchanged, and no error of another non-I/O variant with the
\* same payload displays the same text.
DisplayIsPrefixThenPayload ==
    "fmt" \in seen.asked
        => /\ seen.text = DisplayPrefix(tar_err.variant) \o PayloadText(tar_err)
           /\ tar_err.variant \in StringVariants
                 => \A v \in StringVariants \ {tar_err.variant} :
                       fmt([tar_err EXCEPT !.variant = v]) # seen.text

DisplayIsPrefixThenPayloadWitness ==
    /\ "fmt" \in seen.asked
    /\ tar_err = FileNotFound(<<"a">>)
    /\ seen.text = Chars("File not found: ") \o <<"a">>

\* C19: source() returns an error exactly for the IoError variant; the four
\* other variants have none, a FileNotFound or PermissionDenied obtained by
\* converting an io::Error included.
SourceOnlyForIoError ==
    "source" \in seen.asked
        => /\ seen.source.some <=> tar_err.variant = "IoError"
           /\ tar_err.variant = "IoError" => seen.source.err = tar_err.io
           /\ (io_err # NoIo /\ tar_err.variant \in {"FileNotFound", "PermissionDenied"})
                 => ~seen.source.some

SourceOnlyForIoErrorWitness ==
    /\ "source" \in seen.asked
    /\ io_err.kind = "NotFound"
    /\ tar_err.variant = "FileNotFound"
    /\ ~seen.source.some

\* The words clap is given (line 30), clusters spelled out, argv[0] dropped.
Words == Tail(Flatten(args_to_parse(args_vec)))

Unrecognised(t) == IsOption(t) /\ t \notin Declared

HasUnrecognised == \E i \in DOMAIN Words : Unrecognised(Words[i])

FirstUnrecognised ==
    CHOOSE i \in DOMAIN Words :
        Unrecognised(Words[i]) /\ \A j \in 1..(i - 1) : ~Unrecognised(Words[j])

\* The words before the first unrecognised option, behind argv[0].
Before == <<util_name>> \o SubSeq(Words, 1, FirstUnrecognised - 1)

\* Nothing before the unrecognised option ends the parse by itself: those
\* words parse, or only leave a final -f waiting for its value.
NothingEarlier ==
    \/ ParseFrom(Before, 2, NoMatches).ok
    \/ /\ Before[Len(Before)] = "-f"
       /\ ParseFrom(SubSeq(Before, 1, Len(Before) - 1), 2, NoMatches).ok
       /\ ParseFrom(SubSeq(Before, 1, Len(Before) - 1), 2, NoMatches).m.file = NoPath

RECURSIVE Positionals(_)
Positionals(w) ==
    IF w = <<>> THEN <<>>
    ELSE IF Head(w) = "-f" THEN Positionals(IF Len(w) > 1 THEN Tail(Tail(w)) ELSE <<>>)
    ELSE IF IsOption(Head(w)) THEN Positionals(Tail(w))
    ELSE <<Head(w)>> \o Positionals(Tail(w))

\* C21: in the create path (-c given, -x not) the -f check comes before the
\* empty-selection check, which comes before the call: without -f the
\* invocation reports "requires an argument" whether or not files are named,
\* and never "empty archive"; with -f and no file it reports "empty archive";
\* in both cases nothing is called. create_archive is only ever called with
\* the value of -f and a non-empty file list that holds the positional
\* arguments given to the parser, in command-line order.
CreateChecksInOrder ==
    /\ \A i \in DOMAIN calls :
          calls[i].fn = "create_archive"
              => /\ calls[i].files # <<>>
                 /\ calls[i].files = Positionals(Words)
                 /\ calls[i].archive_path # NoPath
                 /\ calls[i].archive_path = matches.file
    /\ (Returned /\ CreateSelected /\ ~ExtractSelected /\ ~FileGiven)
          => /\ result.code = 1
             /\ Contains(result.msg, "requires an argument")
             /\ ~Contains(result.msg, "empty archive")
             /\ calls = <<>>
    /\ (Returned /\ CreateSelected /\ ~ExtractSelected /\ FileGiven
            /\ matches.files = <<>>)
          => /\ Contains(result.msg, "empty archive")
             /\ calls = <<>>

CreateChecksInOrderWitness ==
    /\ Returned /\ CreateSelected /\ ~ExtractSelected /\ ~FileGiven
    /\ matches.files = <<>>
    /\ Positionals(Words) = <<>>
    /\ Contains(result.msg, "requires an argument")

\* The calls without their verbose argument.
Plain(cs) ==
    [i \in DOMAIN cs |-> [fn |-> cs[i].fn, archive_path |-> cs[i].archive_path,
                          files |-> cs[i].files]]

\* Both invocations of a pair are over: one with -v, one without.
VerbosePairDone == twin.taken /\ twin.how = "verbose" /\ pc = "done"

\* The two invocations end alike: same result, same operation called with
\* the same archive and files and returning the same value, same filesystem.
SameButOutput ==
    /\ result = twin.result
    /\ Plain(calls) = Plain(twin.calls)
    /\ fs = twin.fs

\* C22 as stated: two invocations whose command lines differ only in a -v
\* word end with the same result, the same value returned by create_archive
\* or extract_archive, and the same filesystem.
VerboseWordOnlyAffectsOutput ==
    VerbosePairDone => SameButOutput

\* Both command lines parse, to the same arguments but for the verbose flag.
DifferOnlyInVerboseFlag ==
    /\ matches.parsed
    /\ twin.matches.parsed
    /\ ~get_flag(matches, "verbose")
    /\ twin.matches = [matches EXCEPT !.flags = @ \cup {"verbose"}]

\* C22, amended: two invocations whose command lines parse and give the same
\* arguments except for the verbose flag end with the same result (same
\* success, or same error and exit code), the same operation called with the
\* same archive and files and returning the same value, and the same
\* filesystem; only what is printed may differ.
VerboseFlagOnlyAffectsOutput ==
    (VerbosePairDone /\ DifferOnlyInVerboseFlag) => SameButOutput

VerboseFlagOnlyAffectsOutputWitness ==
    /\ VerbosePairDone
    /\ DifferOnlyInVerboseFlag
    /\ Called("extract_archive")
    /\ result = Ok
    /\ stdout = <<>>
    /\ twin.stdout # <<>>

\* The command line has the utility name in second place.
DuplicateGiven(a) == Len(a) > 1 /\ a[2] = util_name

\* uumain has gone on from line 30 as it does when clap is given the list a.
ParsedAs(a) ==
    LET r == try_get_matches_from(a)
    IN  IF r.ok
        THEN matches = r.m
        ELSE /\ pc = "done"
             /\ matches = NoMatches
             /\ result = ClapErrorResult(r)

\* With the utility name in second place exactly that element is dropped and
\* the rest parsed in order; any other list is parsed as it is.
SkipsOnlySecondName ==
    pc # "idle"
        => IF DuplicateGiven(args_vec)
           THEN ParsedAs(RemoveAt(args_vec, 2))
           ELSE ParsedAs(args_vec)

\* Both invocations of a pair are over: one with the utility name in second
\* place, one with the same list without that element.
DuplicatePairDone == twin.taken /\ twin.how = "duplicate" /\ pc = "done"

\* What can be seen of an invocation is the same for both.
SameOutcome ==
    /\ result = twin.result
    /\ stdout = twin.stdout
    /\ calls = twin.calls
    /\ fs = twin.fs

\* C23 as stated: a list with the utility name in second place is parsed
\* without that one element, any other list unchanged, and the outcome of an
\* invocation with the utility name in second place equals that of the same
\* invocation without that element.
DuplicateSkipSameOutcome ==
    /\ SkipsOnlySecondName
    /\ DuplicatePairDone => SameOutcome

\* C23, amended: a list with the utility name in second place is parsed
\* without that one element, the rest in order, and any other list unchanged,
\* so a first positional argument equal to the utility name is not among the
\* files. The outcome equals that of the same invocation without the element
\* when the element after it is not the utility name as well; when it is, the
\* invocation keeps that next name as its first positional file while the
\* invocation without the duplicate loses it.
DuplicateSkipSameOutcomeUnlessRepeated ==
    /\ SkipsOnlySecondName
    /\ (DuplicateGiven(args_vec) /\ matches.parsed)
          => matches.files = Positionals(Tail(Flatten(RemoveAt(args_vec, 2))))
    /\ (DuplicatePairDone /\ ~DuplicateGiven(args_vec)) => SameOutcome
    /\ (DuplicatePairDone /\ DuplicateGiven(args_vec) /\ twin.matches.parsed)
          => /\ matches.parsed
             /\ twin.matches.files # <<>>
             /\ Head(twin.matches.files) = util_name
             /\ matches.files = Tail(twin.matches.files)

DuplicateSkipSameOutcomeUnlessRepeatedWitness ==
    /\ DuplicatePairDone
    /\ ~DuplicateGiven(args_vec)
    /\ Called("create_archive")
    /\ twin.calls = calls
    /\ result = Ok
    /\ twin.result = Ok

====
